---- MODULE Spec2Model ----
(***************************************************************************)
(* A model of the cryptopals set 1 toolkit: the byte operations, the two   *)
(* English-text scorers, the single-byte XOR breaker and the repeating-key *)
(* XOR breaker of crypto_utils.py and set1.py.                             *)
(*                                                                         *)
(* A byte buffer (bytes, bytearray, list of int) is a sequence of integers *)
(* in 0..255.  A call's outcome is a record [kind, exc, val]: kind is      *)
(* "return" (val holds the returned integers), "none" (Python's None) or   *)
(* "raise" (exc names the exception).                                      *)
(***************************************************************************)
EXTENDS Integers, Sequences, FiniteSets, TLC

VARIABLES pc, op, bs1, bs2, ret, scores, xored, probable_keys, final_keys, rank

vars == <<pc, op, bs1, bs2, ret, scores, xored, probable_keys, final_keys, rank>>

(***************************************************************************)
(* Outcomes of a call.                                                     *)
(***************************************************************************)
Return(v) == [kind |-> "return", exc |-> "", val |-> v]

Raise(e) == [kind |-> "raise", exc |-> e, val |-> <<>>]

ReturnNone == [kind |-> "none", exc |-> "", val |-> <<>>]

Pending == [kind |-> "pending", exc |-> "", val |-> <<>>]

(***************************************************************************)
(* Python's integer operators on bytes: ^ and &.  The XOR of two bytes is  *)
(* read from a table computed once, bit by bit.  List(f) is a list built   *)
(* in full, as a comprehension or bytes(...) builds it.                    *)
(***************************************************************************)
List(f) == f \o <<>>

RECURSIVE BitOr(_, _)
BitOr(x, y) ==
    IF x = 0 /\ y = 0 THEN 0
    ELSE (IF x % 2 = 1 \/ y % 2 = 1 THEN 1 ELSE 0) + 2 * BitOr(x \div 2, y \div 2)

RECURSIVE XorBits(_, _)
XorBits(x, y) ==
    IF x = 0 /\ y = 0 THEN 0
    ELSE (((x % 2) + (y % 2)) % 2) + 2 * XorBits(x \div 2, y \div 2)

XorTable == List([x \in 1..256 |-> List([y \in 1..256 |-> XorBits(x - 1, y - 1)])])

BitXor(x, y) == XorTable[x + 1][y + 1]

RECURSIVE BitAnd(_, _)
BitAnd(x, y) ==
    IF x = 0 \/ y = 0 THEN 0
    ELSE ((x % 2) * (y % 2)) + 2 * BitAnd(x \div 2, y \div 2)

(***************************************************************************)
(* fixed_xor: [buf1[i] ^ buf2[i] for i in range(len(buf1))].  The index    *)
(* runs over buf1 alone: buf2[i] raises IndexError when buf2 is shorter,   *)
(* and the bytes of a longer buf2 are never read.                          *)
(***************************************************************************)
fixed_xor(buf1, buf2) ==
    IF \E i \in 1..Len(buf1) : i > Len(buf2)
    THEN Raise("IndexError")
    ELSE Return(List([i \in 1..Len(buf1) |-> BitXor(buf1[i], buf2[i])]))

(***************************************************************************)
(* repeating_xor: zip_longest(block, cycle(key)) cut by islice to          *)
(* len(block) pairs.  cycle(key) yields the key, then the saved copy of it *)
(* again and again; over an empty key it is exhausted at once and          *)
(* zip_longest fills None, which ^ rejects with TypeError.                 *)
(***************************************************************************)
\* the first n items of cycle(key), items being whole copies of the key
RECURSIVE CycleItems(_, _)
CycleItems(items, n) ==
    IF Len(items) >= n THEN SubSeq(items, 1, n) ELSE CycleItems(items \o items, n)

\* zip(block, key) in place of zip_longest(block, cycle(key))
ZipShortest(block, key) ==
    [i \in 1..(IF Len(key) < Len(block) THEN Len(key) ELSE Len(block)) |->
        <<block[i], key[i]>>]

ZipLongestCycle(block, key) ==
    LET items == CycleItems(key, Len(block))
    IN  [i \in 1..Len(block) |-> <<block[i], items[i]>>]

repeating_xor(block, key) ==
    IF Len(block) = 0 THEN Return(<<>>)
    ELSE IF Len(key) = 0 THEN Raise("TypeError")
    ELSE LET pairs == ZipLongestCycle(block, key)
         IN  Return(List([i \in 1..Len(pairs) |-> BitXor(pairs[i][1], pairs[i][2])]))

(***************************************************************************)
(* hamming: the length check, then per pair of bytes the loop              *)
(*     while xor > 0: xor &= xor - 1; count += 1                           *)
(***************************************************************************)
ShiftRight(x) == x \div 2

ClearLowestBit(x) == BitAnd(x, x - 1)

\* what the while loop adds to count
RECURSIVE WhileXor(_)
WhileXor(x) == IF x > 0 THEN 1 + WhileXor(ClearLowestBit(x)) ELSE 0

\* what the for loop adds to count over the pairs lo..hi
RECURSIVE HammingLoop(_, _, _, _)
HammingLoop(b1, b2, lo, hi) ==
    IF lo > hi THEN 0
    ELSE IF lo = hi THEN WhileXor(BitXor(b1[lo], b2[lo]))
    ELSE LET mid == (lo + hi) \div 2
         IN  HammingLoop(b1, b2, lo, mid) + HammingLoop(b1, b2, mid + 1, hi)

hamming(b1, b2) ==
    IF Len(b1) # Len(b2) THEN Raise("RuntimeError")
    ELSE Return(<<HammingLoop(b1, b2, 1, Len(b1))>>)

(***************************************************************************)
(* The accepted bytes and the letter frequencies.  A frequency is held in  *)
(* units of 1e-5 (0.08167 is 8167); the 26 entries sum to 99999.           *)
(***************************************************************************)
Range(start, stop) == start..(stop - 1)

WHITESPACE == {10, 32}

VALID_ASCII_BYTES == WHITESPACE \cup Range(33, 128)

FREQUENCIES ==
    97 :> 8167 @@ 98 :> 1492 @@ 99 :> 2782 @@ 100 :> 4253 @@ 101 :> 12702 @@
    102 :> 2228 @@ 103 :> 2015 @@ 104 :> 6094 @@ 105 :> 6966 @@ 106 :> 153 @@
    107 :> 772 @@ 108 :> 4025 @@ 109 :> 2406 @@ 110 :> 6749 @@ 111 :> 7507 @@
    112 :> 1929 @@ 113 :> 95 @@ 114 :> 5987 @@ 115 :> 6327 @@ 116 :> 9056 @@
    117 :> 2758 @@ 118 :> 978 @@ 119 :> 2360 @@ 120 :> 150 @@ 121 :> 1974 @@
    122 :> 74

valid_english_byte_below_del(b) == b \in WHITESPACE \cup Range(33, 127)

valid_english_byte(b) == b \in VALID_ASCII_BYTES

\* bytes.lower(): the ASCII capitals become small letters
lower(b) == IF b \in Range(65, 91) THEN b + 32 ELSE b

(***************************************************************************)
(* Float arithmetic is held in fixed point.  MulDivQR(a, b, c) is the      *)
(* quotient and remainder of a * b by c, computed without forming a * b.   *)
(***************************************************************************)
RECURSIVE MulDivQR(_, _, _)
MulDivQR(a, b, c) ==
    IF b = 0 THEN <<0, 0>>
    ELSE LET h == MulDivQR(a, b \div 2, c)
             t == 2 * h[2] + (b % 2) * (a % c)
         IN  <<2 * h[1] + (b % 2) * (a \div c) + (t \div c), t % c>>

Abs(x) == IF x < 0 THEN -x ELSE x

(***************************************************************************)
(* One letter's term pow(count - expected, 2) / expected, in units of      *)
(* 1e-3 and rounded up: count and total are letter counts, freq is in      *)
(* 1e-5.  count - expected is 0.0 only if 100000 * count = total * freq.   *)
(***************************************************************************)
Chi2Term(count, total, freq) ==
    LET expected == total * freq
        diff == Abs(100000 * count - expected)
        qr == MulDivQR(diff, diff, 100 * expected)
    IN  qr[1] + (IF qr[2] > 0 THEN 1 ELSE 0)

RECURSIVE Chi2Sum(_, _, _)
Chi2Sum(letters, counts, total) ==
    IF letters = {} THEN 0
    ELSE LET l == CHOOSE x \in letters : \A y \in letters : x <= y
         IN  Chi2Term(counts[l], total, FREQUENCIES[l])
               + Chi2Sum(letters \ {l}, counts, total)

(***************************************************************************)
(* chi2_score: None unless every byte is accepted, a space occurs and a    *)
(* letter occurs; else the sum of the terms of the letters that occur.     *)
(***************************************************************************)
chi2_score(block) ==
    IF ~(\A i \in 1..Len(block) : valid_english_byte(block[i])) THEN ReturnNone
    ELSE IF ~(\E i \in 1..Len(block) : block[i] = 32) THEN ReturnNone
    ELSE LET keys == {lower(block[i]) : i \in 1..Len(block)} \cap Range(97, 123)
             letter_counts ==
                 [l \in keys |->
                     Cardinality({i \in 1..Len(block) : lower(block[i]) = l})]
             total_letters == Cardinality({i \in 1..Len(block) : lower(block[i]) \in keys})
         IN  IF total_letters = 0 THEN ReturnNone
             ELSE IF \E l \in keys : l \notin DOMAIN FREQUENCIES THEN Raise("KeyError")
             ELSE Return(<<Chi2Sum(keys, letter_counts, total_letters)>>)

(***************************************************************************)
(* The quadgram table: log10(count / TOTAL_QUAD_COUNT) per quadgram of     *)
(* the corpus file, in units of 1e-3.  Two corpus lines stand for the      *)
(* file (THAT 8980536, TION 13168375); TOTAL_QUAD_COUNT is 4224127912.     *)
(* UNSEEN_LOG_PROB is log10(0.01 / TOTAL_QUAD_COUNT), the term of a        *)
(* quadgram the table lacks.                                               *)
(***************************************************************************)
QUADGRAM_PROBS ==
    <<116, 104, 97, 116>> :> -2672 @@ <<116, 105, 111, 110>> :> -2506

UNSEEN_LOG_PROB == -11626

DequeAppend(window, x, maxlen) ==
    IF Len(window) = maxlen THEN Tail(window) \o <<x>> ELSE window \o <<x>>

RECURSIVE SlideRest(_, _, _, _)
SlideRest(window, seq, i, n) ==
    IF i > Len(seq) THEN <<>>
    ELSE LET w == DequeAppend(window, seq[i], n)
         IN  <<w>> \o SlideRest(w, seq, i + 1, n)

Islice(seq, n) == SubSeq(seq, 1, IF Len(seq) < n THEN Len(seq) ELSE n)

sliding_window_rest_only(iterable, n) ==
    SlideRest(Islice(iterable, n), iterable, n + 1, n)

\* _sliding_window: the first n items, yielded if there are n of them, then
\* one window per further item
sliding_window(iterable, n) ==
    LET window == Islice(iterable, n)
    IN  (IF Len(window) = n THEN <<window>> ELSE <<>>)
          \o SlideRest(window, iterable, n + 1, n)

RECURSIVE QuadSum(_, _, _)
QuadSum(quads, i, prob) ==
    IF i > Len(quads) THEN prob
    ELSE QuadSum(quads, i + 1,
                 prob + (IF quads[i] \in DOMAIN QUADGRAM_PROBS
                         THEN QUADGRAM_PROBS[quads[i]]
                         ELSE UNSEEN_LOG_PROB))

ascii_lowercase == Range(97, 123)

IsLowercaseLetter(b) == b \in ascii_lowercase

quadgram_score(block) ==
    IF ~(\E i \in 1..Len(block) : block[i] \in VALID_ASCII_BYTES) THEN ReturnNone
    ELSE IF ~(\E i \in 1..Len(block) : block[i] = 32) THEN ReturnNone
    ELSE LET letters == SelectSeq([i \in 1..Len(block) |-> lower(block[i])],
                                  IsLowercaseLetter)
         IN  IF 2 * Len(letters) < Len(block) THEN ReturnNone
             ELSE Return(<<QuadSum(sliding_window(letters, 4), 1, 0)>>)

(***************************************************************************)
(* break_single_byte_xor: every key byte of range(256) is tried; a         *)
(* candidate (c, score, xored) is kept when `if score:` passes, that is    *)
(* when the score is neither None nor 0.0; the candidates are sorted by    *)
(* score with a stable sort and the first is returned as (score, c).       *)
(***************************************************************************)
AsciiKeyBytes == Range(0, 128)

KeyBytes == Range(0, 256)

Truthy(score) == score.kind = "return" /\ score.val[1] # 0

Candidate(block, c) ==
    LET xor == fixed_xor(block, List([i \in 1..Len(block) |-> c]))
    IN  <<c, chi2_score(xor.val), xor.val>>

\* the loop `for c in range(256)` over the key bytes lo..hi, in ascending
\* order: the candidates it appends
RECURSIVE CollectScores(_, _, _)
CollectScores(block, lo, hi) ==
    IF lo > hi THEN <<>>
    ELSE IF lo = hi
    THEN LET cand == Candidate(block, lo)
         IN  IF lo \in KeyBytes /\ Truthy(cand[2])
             THEN <<<<lo, cand[2].val[1], cand[3]>>>>
             ELSE <<>>
    ELSE LET mid == (lo + hi) \div 2
         IN  CollectScores(block, lo, mid) \o CollectScores(block, mid + 1, hi)

\* list.sort(key=...): ascending by key, entries of equal key keeping their
\* order.  Entry i goes to the place StablePlace counts.
StablePlaceTiesReversed(seq, i) ==
    1 + Cardinality({j \in 1..Len(seq) :
                        \/ seq[j][2] < seq[i][2]
                        \/ seq[j][2] = seq[i][2] /\ j > i})

StablePlace(seq, i) ==
    1 + Cardinality({j \in 1..Len(seq) :
                        \/ seq[j][2] < seq[i][2]
                        \/ seq[j][2] = seq[i][2] /\ j < i})

SortByScore(seq) ==
    [p \in 1..Len(seq) |-> seq[CHOOSE i \in 1..Len(seq) : StablePlace(seq, i) = p]]

SortedScores(block) == SortByScore(CollectScores(block, 0, 255))

ResultOfScores(sorted) ==
    IF Len(sorted) > 0 THEN Return(<<sorted[1][2], sorted[1][1]>>) ELSE ReturnNone

break_single_byte_xor(block) == ResultOfScores(SortedScores(block))

(***************************************************************************)
(* chunks(lst, n): lst[i:i + n] for i in range(0, len(lst), n).            *)
(***************************************************************************)
Min(a, b) == IF a < b THEN a ELSE b

chunks(lst, n) ==
    [j \in 1..((Len(lst) + n - 1) \div n) |->
        SubSeq(lst, (j - 1) * n + 1, Min(j * n, Len(lst)))]

(***************************************************************************)
(* Double-precision arithmetic for the normalized distance.  A double x    *)
(* with 0 <= x < 32 is the triple <<a, b, c>> of 23-bit limbs with         *)
(* x = (a * 2^46 + b * 2^23 + c) * 2^-62; every double the distances       *)
(* produce is a multiple of 2^-62.  FloatRound rounds to 53 significant    *)
(* bits, to nearest and to even on a tie, as / and + do.                   *)
(***************************************************************************)
LIMB == 8388608

RECURSIVE BitLen(_)
BitLen(x) == IF x = 0 THEN 0 ELSE 1 + BitLen(x \div 2)

RECURSIVE TwoTo(_)
TwoTo(n) == IF n = 0 THEN 1 ELSE 2 * TwoTo(n - 1)

FloatCarry(f) ==
    LET b1 == f[2] + (f[3] \div LIMB)
    IN  <<f[1] + (b1 \div LIMB), b1 % LIMB, f[3] % LIMB>>

FloatBitLen(f) ==
    IF f[1] > 0 THEN 46 + BitLen(f[1])
    ELSE IF f[2] > 0 THEN 23 + BitLen(f[2])
    ELSE BitLen(f[3])

FloatRound(f, inexact) ==
    LET r == FloatBitLen(f) - 53
    IN  IF r <= 0 THEN f
        ELSE LET unit == TwoTo(r)
                 low == f[3] % unit
                 half == unit \div 2
                 above == low > half \/ (low = half /\ inexact)
                 tie == low = half /\ ~inexact
                 odd == (f[3] \div unit) % 2 = 1
                 up == above \/ (tie /\ odd)
             IN  FloatCarry(<<f[1], f[2], f[3] - low + (IF up THEN unit ELSE 0)>>)

FloatAdd(x, y) == FloatRound(FloatCarry(<<x[1] + y[1], x[2] + y[2], x[3] + y[3]>>), FALSE)

FloatDiv(x, q) ==
    LET t2 == (x[1] % q) * LIMB + x[2]
        t3 == (t2 % q) * LIMB + x[3]
    IN  FloatRound(<<x[1] \div q, t2 \div q, t3 \div q>>, t3 % q # 0)

\* the integer n, not yet rounded: n * 2^62 = (n * 2^16) * 2^46
FloatOfInt(n) == <<n * 65536, 0, 0>>

FloatLess(x, y) ==
    \/ x[1] < y[1]
    \/ x[1] = y[1] /\ x[2] < y[2]
    \/ x[1] = y[1] /\ x[2] = y[2] /\ x[3] < y[3]

(***************************************************************************)
(* break_repeating_key_xor, step 1.  For one keysize the normalized        *)
(* distance is (d1 + d2 + d3) / 3.0 with d = hamming / keysize.  chunk[j]  *)
(* raises IndexError when the file has fewer chunks, and hamming raises    *)
(* RuntimeError on a short last chunk.                                     *)
(***************************************************************************)
MIN_KEYSIZE == 2

MAX_KEYSIZE == 40

NUM_CHUNKS == 4

TOP_KEYSIZES == 3

Average(h1, h2, h3, keysize) ==
    LET d1 == FloatDiv(FloatOfInt(h1), keysize)
        d2 == FloatDiv(FloatOfInt(h2), keysize)
        d3 == FloatDiv(FloatOfInt(h3), keysize)
    IN  FloatDiv(FloatAdd(FloatAdd(d1, d2), d3), 3)

Normalized(file, keysize) ==
    LET chunk == Islice(chunks(file, keysize), NUM_CHUNKS)
        h1 == hamming(chunk[1], chunk[2])
        h2 == hamming(chunk[2], chunk[3])
        h3 == hamming(chunk[3], chunk[4])
    IN  IF Len(chunk) < 2 THEN Raise("IndexError")
        ELSE IF h1.kind = "raise" THEN h1
        ELSE IF Len(chunk) < 3 THEN Raise("IndexError")
        ELSE IF h2.kind = "raise" THEN h2
        ELSE IF Len(chunk) < 4 THEN Raise("IndexError")
        ELSE IF h3.kind = "raise" THEN h3
        ELSE Return(Average(h1.val[1], h2.val[1], h3.val[1], keysize))

\* the loop over range(2, 41), for the keysizes lo..hi: the entries
\* appended, or the exception that ended the loop
RECURSIVE KeysizeLoop(_, _, _)
KeysizeLoop(file, lo, hi) ==
    IF lo > hi THEN Return(<<>>)
    ELSE IF lo = hi
    THEN LET n == Normalized(file, lo)
         IN  IF n.kind = "raise" THEN n ELSE Return(<<<<lo, n.val>>>>)
    ELSE LET mid == (lo + hi) \div 2
             first == KeysizeLoop(file, lo, mid)
             second == KeysizeLoop(file, mid + 1, hi)
         IN  IF first.kind = "raise" THEN first
             ELSE IF second.kind = "raise" THEN second
             ELSE Return(first.val \o second.val)

\* probable_keys.sort(key=lambda k: k[1]): ascending by normalized
\* distance, entries of equal distance keeping their order
RankDescending(seq, i) ==
    1 + Cardinality({j \in 1..Len(seq) :
                        \/ FloatLess(seq[i][2], seq[j][2])
                        \/ seq[j][2] = seq[i][2] /\ j < i})

RankPlace(seq, i) ==
    1 + Cardinality({j \in 1..Len(seq) :
                        \/ FloatLess(seq[j][2], seq[i][2])
                        \/ seq[j][2] = seq[i][2] /\ j < i})

SortByDistance(seq) ==
    [p \in 1..Len(seq) |-> seq[CHOOSE i \in 1..Len(seq) : RankPlace(seq, i) = p]]

(***************************************************************************)
(* Step 2, one pass of `for keysize in keysizes`: the byte blocks          *)
(* islice(xored[k:], 0, None, keysize), one key byte per block that        *)
(* break_single_byte_xor decrypts, and the key appended if it is not       *)
(* empty.                                                                  *)
(***************************************************************************)
Strided(seq, step) ==
    List([j \in 1..((Len(seq) + step - 1) \div step) |-> seq[(j - 1) * step + 1]])

ByteBlock(file, k, keysize) == Strided(SubSeq(file, k + 1, Len(file)), keysize)

\* the loop over the byte blocks lo..hi: the key bytes appended
RECURSIVE KeyLoop(_, _, _, _)
KeyLoop(file, keysize, lo, hi) ==
    IF lo > hi THEN <<>>
    ELSE IF lo = hi
    THEN LET result == break_single_byte_xor(ByteBlock(file, lo, keysize))
         IN  IF result.kind = "return" THEN <<result.val[2]>> ELSE <<>>
    ELSE LET mid == (lo + hi) \div 2
         IN  KeyLoop(file, keysize, lo, mid) \o KeyLoop(file, keysize, mid + 1, hi)

AppendAlways(keys, key) == Append(keys, key)

AppendKey(keys, key) == IF Len(key) > 0 THEN Append(keys, key) ELSE keys

Keysizes(ranked) == Islice([j \in 1..Len(ranked) |-> ranked[j][1]], TOP_KEYSIZES)

(***************************************************************************)
(* The printing loop decodes each key and each decryption as ASCII.        *)
(***************************************************************************)
IsAscii(seq) == \A i \in 1..Len(seq) : seq[i] < 128

PrintOutcome(file, keys) ==
    IF \E j \in 1..Len(keys) :
          ~IsAscii(keys[j]) \/ ~IsAscii(repeating_xor(file, keys[j]).val)
    THEN Raise("UnicodeDecodeError")
    ELSE ReturnNone

(***************************************************************************)
(* The byte operations called on bounded buffers.                          *)
(***************************************************************************)
MaxLen == 3

OpBytes == {0, 1, 170, 255}

Buffers(S, n) == UNION {[1..k -> S] : k \in 0..n}

InitRest ==
    /\ scores = <<>>
    /\ xored = <<>>
    /\ probable_keys = <<>>
    /\ final_keys = <<>>
    /\ rank = 0

InitByteOps ==
    /\ pc = "call"
    /\ op \in {"fixed_xor", "repeating_xor", "hamming"}
    /\ \/ /\ bs1 \in Buffers(OpBytes, MaxLen)
          /\ bs2 \in Buffers(OpBytes, MaxLen)
       \/ /\ bs1 \in [1..1 -> 0..255]
          /\ bs2 = <<0>>
    /\ ret = Pending
    /\ InitRest

UnchangedRest == UNCHANGED <<scores, xored, probable_keys, final_keys, rank>>

CallFixedXor ==
    /\ pc = "call" /\ op = "fixed_xor"
    /\ ret' = fixed_xor(bs1, bs2)
    /\ pc' = "done"
    /\ UNCHANGED <<op, bs1, bs2>>
    /\ UnchangedRest

CallHamming ==
    /\ pc = "call" /\ op = "hamming"
    /\ ret' = hamming(bs1, bs2)
    /\ pc' = "done"
    /\ UNCHANGED <<op, bs1, bs2>>
    /\ UnchangedRest

CallRepeatingXor ==
    /\ pc = "call" /\ op = "repeating_xor"
    /\ ret' = repeating_xor(bs1, bs2)
    /\ pc' = "done"
    /\ UNCHANGED <<op, bs1, bs2>>
    /\ UnchangedRest

\* repeating_xor applied to its own result with the same key
CallRepeatingXorAgain ==
    /\ pc = "done" /\ op = "repeating_xor" /\ ret.kind = "return"
    /\ ret' = repeating_xor(ret.val, bs2)
    /\ pc' = "round_trip"
    /\ UNCHANGED <<op, bs1, bs2>>
    /\ UnchangedRest

NextByteOps ==
    \/ CallFixedXor
    \/ CallHamming
    \/ CallRepeatingXor
    \/ CallRepeatingXorAgain

SpecByteOps == InitByteOps /\ [][NextByteOps]_vars

(***************************************************************************)
(* The scorers and the single-byte breaker called on bounded blocks.       *)
(***************************************************************************)
MaxTextLen == 3

Chi2Bytes == {9, 10, 31, 32, 33, 64, 65, 90, 91, 96, 97, 122, 123, 127, 128}

InitChi2 ==
    /\ pc = "call"
    /\ op = "chi2_score"
    /\ bs1 \in Buffers(Chi2Bytes, MaxTextLen)
    /\ bs2 = <<>>
    /\ ret = Pending
    /\ InitRest

CallChi2Score ==
    /\ pc = "call" /\ op = "chi2_score"
    /\ ret' = chi2_score(bs1)
    /\ pc' = "done"
    /\ UNCHANGED <<op, bs1, bs2>>
    /\ UnchangedRest

NextChi2 == CallChi2Score

SpecChi2 == InitChi2 /\ [][NextChi2]_vars

MaxQuadLen == 6

QuadBytes == {32, 84, 97, 104, 116, 200}

InitQuadgram ==
    /\ pc = "call"
    /\ op = "quadgram_score"
    /\ bs1 \in Buffers(QuadBytes, MaxQuadLen)
    /\ bs2 = <<>>
    /\ ret = Pending
    /\ InitRest

CallQuadgramScore ==
    /\ pc = "call" /\ op = "quadgram_score"
    /\ ret' = quadgram_score(bs1)
    /\ pc' = "done"
    /\ UNCHANGED <<op, bs1, bs2>>
    /\ UnchangedRest

NextQuadgram == CallQuadgramScore

SpecQuadgram == InitQuadgram /\ [][NextQuadgram]_vars

MaxBlockLen == 3

CipherBytes == {32, 97, 101, 160, 225}

InitSingle ==
    /\ pc = "call"
    /\ op = "break_single_byte_xor"
    /\ bs1 \in Buffers(CipherBytes, MaxBlockLen)
    /\ bs2 = <<>>
    /\ ret = Pending
    /\ InitRest

\* scores holds the function's sorted local list when it returns
CallBreakSingleByteXor ==
    /\ pc = "call" /\ op = "break_single_byte_xor"
    /\ scores' = SortedScores(bs1)
    /\ ret' = ResultOfScores(scores')
    /\ pc' = "done"
    /\ UNCHANGED <<op, bs1, bs2, xored, probable_keys, final_keys, rank>>

NextSingle == CallBreakSingleByteXor

SpecSingle == InitSingle /\ [][NextSingle]_vars

(***************************************************************************)
(* break_repeating_key_xor on bounded files.  The plaintexts are the text  *)
(* of implement_repeating_key_xor, a periodic text and a run of one byte,  *)
(* repeated to the length of the file; the keys include "ICE".             *)
(***************************************************************************)
MaxPad == 1

BURNING ==
    <<66, 117, 114, 110, 105, 110, 103, 32, 39, 101, 109, 44, 32, 105, 102,
      32, 121, 111, 117, 32, 97, 105, 110, 39, 116, 32, 113, 117, 105, 99,
      107, 32, 97, 110, 100, 32, 110, 105, 109, 98, 108, 101, 10, 73, 32,
      103, 111, 32, 99, 114, 97, 122, 121, 32, 119, 104, 101, 110, 32, 73,
      32, 104, 101, 97, 114, 32, 97, 32, 99, 121, 109, 98, 97, 108>>

Plaintexts == {BURNING, <<116, 104, 101, 32, 97, 32>>, <<0>>}

Keys == {<<73, 67, 69>>, <<0>>, <<200, 13>>, <<107, 101, 121, 115>>}

Take(text, n) == List([i \in 1..n |-> text[((i - 1) % Len(text)) + 1]])

FileLengths ==
    {NUM_CHUNKS * MAX_KEYSIZE - 1}
        \cup (NUM_CHUNKS * MAX_KEYSIZE)..(NUM_CHUNKS * MAX_KEYSIZE + MaxPad)

Files ==
    {repeating_xor(Take(text, n), key).val :
        text \in Plaintexts, key \in Keys, n \in FileLengths}

InitBreak ==
    /\ pc = "estimate"
    /\ op = "break_repeating_key_xor"
    /\ xored \in Files
    /\ bs1 = <<>> /\ bs2 = <<>>
    /\ ret = Pending
    /\ scores = <<>>
    /\ probable_keys = <<>>
    /\ final_keys = <<>>
    /\ rank = 0

EstimateKeysizes ==
    /\ pc = "estimate"
    /\ LET listed == KeysizeLoop(xored, MIN_KEYSIZE, MAX_KEYSIZE)
       IN  IF listed.kind = "raise"
           THEN /\ ret' = listed
                /\ pc' = "failed"
                /\ UNCHANGED probable_keys
           ELSE /\ probable_keys' = SortByDistance(listed.val)
                /\ pc' = "recover"
                /\ UNCHANGED ret
    /\ UNCHANGED <<op, bs1, bs2, scores, xored, final_keys, rank>>

RecoverKey ==
    /\ pc = "recover"
    /\ LET keysizes == Keysizes(probable_keys)
           key == KeyLoop(xored, keysizes[rank + 1], 0, keysizes[rank + 1] - 1)
       IN  /\ final_keys' = AppendKey(final_keys, key)
           /\ rank' = rank + 1
           /\ pc' = IF rank + 1 = Len(keysizes) THEN "print" ELSE "recover"
    /\ UNCHANGED <<op, bs1, bs2, ret, scores, xored, probable_keys>>

PrintResults ==
    /\ pc = "print"
    /\ ret' = PrintOutcome(xored, final_keys)
    /\ pc' = IF ret'.kind = "raise" THEN "failed" ELSE "done"
    /\ UNCHANGED <<op, bs1, bs2, scores, xored, probable_keys, final_keys, rank>>

NextBreak ==
    \/ EstimateKeysizes
    \/ RecoverKey
    \/ PrintResults

SpecBreak == InitBreak /\ [][NextBreak]_vars

(***************************************************************************)
(* Reference notions the claims are stated in: the bits of a byte.         *)
(***************************************************************************)
RECURSIVE Pow2(_)
Pow2(j) == IF j = 0 THEN 1 ELSE 2 * Pow2(j - 1)

Bit(x, j) == (x \div Pow2(j)) % 2

DiffBits(x, y) == Cardinality({j \in 0..7 : Bit(x, j) # Bit(y, j)})

RECURSIVE SumDiffBits(_, _, _)
SumDiffBits(a, b, i) ==
    IF i > Len(a) THEN 0 ELSE DiffBits(a[i], b[i]) + SumDiffBits(a, b, i + 1)

IsXorOf(z, x, y) == \A j \in 0..7 : Bit(z, j) = (Bit(x, j) + Bit(y, j)) % 2

\* C1: for buffers of different lengths, in either direction, both hamming
\* and fixed_xor fail with an error and return nothing.
C1_LengthMismatchFails ==
    (pc = "done" /\ op \in {"fixed_xor", "hamming"} /\ Len(bs1) # Len(bs2))
        => ret.kind = "raise"

\* C4: for equal-length buffers hamming returns the number of bit positions
\* in which they differ, the sum over i of the set bits of a[i] XOR b[i].
C4_HammingCountsDifferingBits ==
    (pc = "done" /\ op = "hamming" /\ Len(bs1) = Len(bs2))
        => ret = Return(<<SumDiffBits(bs1, bs2, 1)>>)

C4_Witness ==
    /\ pc = "done" /\ op = "hamming"
    /\ bs1 = <<255, 1>> /\ bs2 = <<0, 170>>
    /\ ret = Return(<<13>>)

\* C5: for a non-empty key repeating_xor returns len(block) bytes, byte i
\* being block[i] XOR key[i mod len(key)], also for a key longer than the
\* block and for the empty block.
C5_RepeatingXorBytes ==
    (pc = "done" /\ op = "repeating_xor" /\ Len(bs2) > 0)
        => /\ ret.kind = "return"
           /\ Len(ret.val) = Len(bs1)
           /\ \A i \in 1..Len(bs1) :
                 IsXorOf(ret.val[i], bs1[i], bs2[((i - 1) % Len(bs2)) + 1])

C5_Witness ==
    /\ pc = "done" /\ op = "repeating_xor"
    /\ bs1 = <<1, 1, 1>> /\ bs2 = <<170, 255>>
    /\ ret = Return(<<171, 254, 171>>)

\* C6: for a non-empty key, repeating_xor applied twice with the same key
\* restores the original block.
C6_RepeatingXorSelfInverse ==
    (pc = "round_trip" /\ Len(bs2) > 0) => ret = Return(bs1)

C6_Witness ==
    /\ pc = "round_trip"
    /\ bs1 = <<1, 170, 255>> /\ bs2 = <<170, 1>>
    /\ ret = Return(bs1)

(***************************************************************************)
(* Reference notions for the scorers: the letters of a block, and the      *)
(* decryption of a block under one key byte.                               *)
(***************************************************************************)
IsLetterByte(b) == (b >= 65 /\ b <= 90) \/ (b >= 97 /\ b <= 122)

IsAcceptedByte(b) == b = 10 \/ (b >= 32 /\ b <= 127)

HasSpace(block) == \E i \in 1..Len(block) : block[i] = 32

FoldCase(b) == IF b >= 65 /\ b <= 90 THEN b + 32 ELSE b

LetterSeq(block) ==
    LET RECURSIVE Keep(_)
        Keep(i) == IF i > Len(block) THEN <<>>
                   ELSE (IF IsLetterByte(block[i]) THEN <<FoldCase(block[i])>> ELSE <<>>)
                          \o Keep(i + 1)
    IN  Keep(1)

QuadTerm(q) ==
    IF q = <<116, 104, 97, 116>> THEN -2672
    ELSE IF q = <<116, 105, 111, 110>> THEN -2506
    ELSE UNSEEN_LOG_PROB

RECURSIVE SumWindows(_, _)
SumWindows(letters, i) ==
    IF i + 3 > Len(letters) THEN 0
    ELSE QuadTerm(SubSeq(letters, i, i + 3)) + SumWindows(letters, i + 1)

Decrypt(block, k) == [i \in 1..Len(block) |-> BitXor(block[i], k)]

ScoredKeys(block) == {k \in 0..255 : chi2_score(Decrypt(block, k)).kind = "return"}

ScoreOf(block, k) == chi2_score(Decrypt(block, k)).val[1]

\* C2: when some key byte yields a scored decryption, break_single_byte_xor
\* returns (score, k) with score the minimum chi2_score over the scored key
\* bytes and k the smallest key byte that attains it.
C2_MinScoreSmallestKey ==
    (pc = "done" /\ op = "break_single_byte_xor" /\ ScoredKeys(bs1) # {})
        => LET scored == ScoredKeys(bs1)
               best == CHOOSE k \in scored :
                          \A j \in scored :
                             \/ ScoreOf(bs1, k) < ScoreOf(bs1, j)
                             \/ ScoreOf(bs1, k) = ScoreOf(bs1, j) /\ k <= j
           IN  ret = Return(<<ScoreOf(bs1, best), best>>)

C2_Witness ==
    /\ pc = "done" /\ op = "break_single_byte_xor"
    /\ bs1 = <<32, 97, 101>>
    /\ ret.kind = "return" /\ ret.val[2] = 69
    /\ Len(scores) = 3

\* C3: break_single_byte_xor keeps as candidates exactly the key bytes whose
\* decryption has a score other than None, returns None exactly when there
\* is none, and never raises, the empty block included.
C3_CandidatesAndNone ==
    (pc = "done" /\ op = "break_single_byte_xor")
        => /\ {scores[j][1] : j \in 1..Len(scores)} = ScoredKeys(bs1)
           /\ ret.kind = "none" <=> ScoredKeys(bs1) = {}
           /\ ret.kind \in {"none", "return"}

C3_Witness ==
    /\ pc = "done" /\ op = "break_single_byte_xor"
    /\ bs1 = <<160, 225>>
    /\ {scores[j][1] : j \in 1..Len(scores)} = {128, 193}
    /\ ret.kind = "return"

(***************************************************************************)
(* Reference notions for the repeating-key breaker: chunk j of the file    *)
(* for a keysize, stream i of the file, and the key of a keysize.          *)
(***************************************************************************)
RefChunk(file, j, s) == SubSeq(file, (j - 1) * s + 1, j * s)

RefDistance(file, s) ==
    Average(SumDiffBits(RefChunk(file, 1, s), RefChunk(file, 2, s), 1),
            SumDiffBits(RefChunk(file, 2, s), RefChunk(file, 3, s), 1),
            SumDiffBits(RefChunk(file, 3, s), RefChunk(file, 4, s), 1),
            s)

\* C[i], C[i + s], C[i + 2s], ... for the 0-based i
RefStream(file, i, s) ==
    List([j \in 1..((Len(file) - i + s - 1) \div s) |-> file[i + (j - 1) * s + 1]])

IsResult(r) == r.kind = "return"

RefKey(file, s) ==
    LET results == List([i \in 1..s |-> break_single_byte_xor(RefStream(file, i - 1, s))])
        found == SelectSeq(results, IsResult)
    IN  List([j \in 1..Len(found) |-> found[j].val[2]])

IsNonEmpty(key) == Len(key) > 0

TriedKeys(file, ranked, n) == List([j \in 1..n |-> RefKey(file, ranked[j][1])])

\* C9 as claimed: key recovery yields exactly one key per tried keysize, the
\* top 3 in rank order, each the concatenation in stream order of the bytes
\* break_single_byte_xor recovers, a key being kept even when every stream
\* fails.
C9_OneKeyPerTriedKeysize ==
    pc = "print" => final_keys = TriedKeys(xored, probable_keys, TOP_KEYSIZES)

\* C9 as amended: key recovery yields, in rank order over the top 3
\* keysizes, the key of each keysize that has at least one stream with a
\* single-byte result: the concatenation in stream order of the recovered
\* bytes, shorter than the keysize when some streams fail.  A keysize all
\* of whose streams fail yields no key, and recovery does not fail.
C9_NonEmptyKeysInRankOrder ==
    pc = "print"
        => /\ rank = TOP_KEYSIZES
           /\ ret = Pending
           /\ final_keys
                = SelectSeq(TriedKeys(xored, probable_keys, TOP_KEYSIZES), IsNonEmpty)

\* a partial key among full ones
C9_Witness ==
    /\ pc = "print"
    /\ Len(final_keys) = TOP_KEYSIZES
    /\ \E j \in 1..TOP_KEYSIZES : Len(final_keys[j]) < probable_keys[j][1]
    /\ \E j \in 1..TOP_KEYSIZES : Len(final_keys[j]) = probable_keys[j][1]

\* C10: for a file of at least 160 bytes every keysize in 2..40 is given the
\* average of hamming(chunk[j], chunk[j+1]) / keysize over the first four
\* chunks, and the 39 keysizes are ranked by ascending distance, keysizes of
\* equal distance in ascending keysize order.
C10_KeysizeRanking ==
    (pc # "estimate" /\ Len(xored) >= NUM_CHUNKS * MAX_KEYSIZE)
        => /\ Len(probable_keys) = MAX_KEYSIZE - MIN_KEYSIZE + 1
           /\ {probable_keys[j][1] : j \in 1..Len(probable_keys)}
                = MIN_KEYSIZE..MAX_KEYSIZE
           /\ \A j \in 1..Len(probable_keys) :
                 probable_keys[j][2] = RefDistance(xored, probable_keys[j][1])
           /\ \A i, j \in 1..Len(probable_keys) :
                 i < j => \/ FloatLess(probable_keys[i][2], probable_keys[j][2])
                          \/ /\ probable_keys[i][2] = probable_keys[j][2]
                             /\ probable_keys[i][1] < probable_keys[j][1]

\* ties among the multiples of the period, ahead of smaller keysizes
C10_Witness ==
    /\ pc = "recover" /\ rank = 0
    /\ Len(xored) >= NUM_CHUNKS * MAX_KEYSIZE
    /\ probable_keys[1][1] = 12 /\ probable_keys[2][1] = 24
    /\ probable_keys[1][2] = probable_keys[2][2]
    /\ probable_keys[4][1] = 4

====
